---- MODULE Spec2Model ----
(***************************************************************************)
(* Model of the tool-connection orchestration and agent-turn execution of  *)
(* viki.ai: service/viki_ai/lib/util/ai_chat_utility.py (AIChatUtility).   *)
(*                                                                         *)
(* One turn is one call of AIChatUtility.generate_response on its own      *)
(* AIChatUtility instance.  Turns are asyncio tasks of one process: each   *)
(* action below is the code between two awaits, so it is atomic with       *)
(* respect to the other turns; os.environ is the one piece of state the    *)
(* turns share.                                                            *)
(***************************************************************************)
EXTENDS Integers, Sequences, FiniteSets, TLC

\* Python's None.
None == "None"

(***************************************************************************)
(* Bounds of the model.                                                    *)
(***************************************************************************)
\* Longest agent_mcp_configs list.
MaxTools == 4
\* Longest agent_mcp_configs list that mixes working and failing tools.
MaxMixed == 2
\* Transient failures (an exception the environment raises) injected per turn.
MaxFaults == 1

(***************************************************************************)
(* Program constants.                                                      *)
(***************************************************************************)
\* asyncio.Semaphore(3)
SemaphoreSize == 3
\* max_retries of the direct model call in generate_response
max_retries == 3
\* base_delay of the direct model call, in milliseconds (1.0 s)
base_delay == 1000
\* self._max_retries of _create_mcp_connection_with_retry
self_max_retries == 3
\* self._base_delay of _create_mcp_connection_with_retry, in milliseconds (0.5 s)
self_base_delay == 500

\* The chat requests in flight: each is one call of chat_with_ai, which
\* constructs its own AIChatUtility.
Turns == {"A", "B", "C", "D"}

(***************************************************************************)
(* Exceptions.  An exception is its class and its str(); the substring     *)
(* tests the code makes on str(e) are looked up in WordsOf.                *)
(***************************************************************************)
Exc(cls, str) == [cls |-> cls, str |-> str]

\* No exception: the call returned.
NoExc == Exc(None, "")

\* asyncio.CancelledError, raised in a task that is cancelled.
CancelledError == Exc("CancelledError", "")

\* e is caught by `except Exception`: CancelledError derives from
\* BaseException.
IsException(e) == e.cls # "CancelledError"

\* The messages of the ValueErrors configure_llm raises for a missing field.
ApiKeyMessages ==
    {"API key is required for OpenAI", "API key is required for Groq",
     "API key is required for Azure AI", "API key is required for HuggingFace",
     "API key is required for Cerebras", "API key is required for OpenRouter",
     "API key is required for Anthropic"}

ModelNameMessages ==
    {"Model name is required for HuggingFace", "Model name is required for Cerebras",
     "Model name is required for OpenRouter", "Model name is required for Anthropic",
     "Model name is required for AWS BedRock"}

\* f"AWS BedRock configuration is missing required fields: {missing_fields}. ..."
AwsMissingMessage(missing_fields) ==
    CASE missing_fields = {"access_key"}
             -> "AWS BedRock configuration is missing required fields: ['access_key']"
      [] missing_fields = {"secret_key"}
             -> "AWS BedRock configuration is missing required fields: ['secret_key']"
      [] missing_fields = {"region"}
             -> "AWS BedRock configuration is missing required fields: ['region']"
      [] missing_fields = {"access_key", "secret_key"}
             -> "AWS BedRock configuration is missing required fields: ['access_key', 'secret_key']"
      [] missing_fields = {"access_key", "region"}
             -> "AWS BedRock configuration is missing required fields: ['access_key', 'region']"
      [] missing_fields = {"secret_key", "region"}
             -> "AWS BedRock configuration is missing required fields: ['secret_key', 'region']"
      [] OTHER
             -> "AWS BedRock configuration is missing required fields: ['access_key', 'secret_key', 'region']"

AwsRequired == {"access_key", "secret_key", "region"}

WordsOf(s) ==
    CASE s = "Error code: 400 tool_use_failed: Failed to call a function"
             -> {"Failed to call a function", "tool_use_failed"}
      [] s = "Failed to call a function get_column_details: table_name missing"
             -> {"Failed to call a function", "get_column_details", "table_name"}
      [] s = "All connection attempts failed" -> {"connection"}
      [] s = "HuggingFace proxy setup failed" -> {"proxy"}
      [] s = "Request timeout" -> {"timeout"}
      [] s = "Resource temporarily unavailable" -> {"Resource temporarily unavailable"}
      [] s = "Connection failed after 3 attempts. This might be due to proxy configuration issues in your corporate network. Please check your proxy settings."
             -> {"connection", "proxy"}
      [] s = "This appears to be a network connectivity issue. If you're in a corporate network, please ensure your proxy settings are correctly configured."
             -> {"network", "proxy"}
      [] s \in ApiKeyMessages -> {"API key"}
      [] s \in ModelNameMessages -> {"Model name"}
      [] s = "Configuration file is required for AWS BedRock" -> {"Configuration file"}
      [] s \in {AwsMissingMessage(m) : m \in (SUBSET AwsRequired) \ {{}}}
             -> CHOOSE m \in (SUBSET AwsRequired) \ {{}} : s = AwsMissingMessage(m)
      [] OTHER -> {}

\* `word in str(e)` and `word in str(e).lower()` on the messages above.
Contains(s, word) == word \in WordsOf(s)

\* Exceptions a model invocation (agent.ainvoke, model.ainvoke) can raise.
ModelErrors ==
    { Exc("GroqBadRequestError", "Error code: 400 tool_use_failed: Failed to call a function"),
      Exc("Exception", "Failed to call a function get_column_details: table_name missing"),
      Exc("ConnectError", "All connection attempts failed"),
      Exc("Exception", "Request timeout"),
      Exc("Exception", "invalid api key") }

\* except (GroqAPIConnectionError, HttpxConnectError, HttpcoreConnectError,
\*         HttpxProxyError, ConnectionError)
TransportClasses ==
    {"APIConnectionError", "ConnectError", "ProxyError", "ConnectionError"}

IsTransportError(e) == e.cls \in TransportClasses

\* The condition under which create_nested_connections answers with a
\* clarifying message instead of re-raising.
IsToolCallError(e) ==
    \/ (Contains(e.str, "BadRequestError") /\ Contains(e.str, "tool_use_failed"))
    \/ Contains(e.str, "Failed to call a function")
    \/ e.cls = "GroqBadRequestError"

\* any(err_type in str(e).lower() for err_type in
\*     ['connection', 'proxy', 'network', 'timeout'])
MentionsNetwork(e) ==
    \E w \in {"connection", "proxy", "network", "timeout"} : Contains(e.str, w)

(***************************************************************************)
(* The process environment: os.environ restricted to the variables the     *)
(* code writes.                                                            *)
(***************************************************************************)
ProxyVars == {"HTTP_PROXY", "HTTPS_PROXY", "http_proxy", "https_proxy"}
EnvVars == ProxyVars \cup {"AZURE_INFERENCE_CREDENTIAL", "NO_PROXY", "no_proxy"}

\* The variables of the environment of a tool subprocess; TOOL_TOKEN stands
\* for the variables a tool is configured with.
SubprocessVars == ProxyVars \cup {"NO_PROXY", "no_proxy", "TOOL_TOKEN"}

\* An environment dict without entry.
NoEnv == [k \in SubprocessVars |-> None]

\* get_llm_proxy_env_vars(http_proxy=self.http_proxy or "",
\*                        https_proxy=self.https_proxy or "")
get_llm_proxy_env_vars(http_proxy, https_proxy, os_environ) ==
    LET no_proxy == IF os_environ["NO_PROXY"] \notin {None, ""}
                    THEN os_environ["NO_PROXY"]
                    ELSE IF os_environ["no_proxy"] = None THEN "" ELSE os_environ["no_proxy"]
    IN  [k \in SubprocessVars |->
            CASE k \in {"HTTP_PROXY", "http_proxy"} ->
                     IF http_proxy \notin {None, ""} THEN http_proxy ELSE None
              [] k \in {"HTTPS_PROXY", "https_proxy"} ->
                     IF https_proxy \notin {None, ""} THEN https_proxy ELSE None
              [] k \in {"NO_PROXY", "no_proxy"} ->
                     IF no_proxy # "" THEN no_proxy ELSE None
              [] OTHER -> None]

\* env.update(other)
Update(env, other) ==
    [k \in SubprocessVars |-> IF other[k] # None THEN other[k] ELSE env[k]]

\* A faulty variant of get_server_params: the env dict of the config is updated
\* in place instead of a copy of it.
get_server_params_in_place(u, os_environ, config_env) ==
    LET env == IF u.http_proxy \notin {None, ""} \/ u.https_proxy \notin {None, ""}
               THEN Update(config_env,
                           get_llm_proxy_env_vars(u.http_proxy, u.https_proxy, os_environ))
               ELSE config_env
    IN  [env |-> env, config_env |-> env]

\* get_server_params(config): env is the env of the StdioServerParameters it
\* returns, config_env the env dict of the config after the call
\* (env = config.get("env", {}).copy() leaves it alone).
get_server_params(u, os_environ, config_env) ==
    LET env == IF u.http_proxy \notin {None, ""} \/ u.https_proxy \notin {None, ""}
               THEN Update(config_env,
                           get_llm_proxy_env_vars(u.http_proxy, u.https_proxy, os_environ))
               ELSE config_env
    IN  [env |-> env, config_env |-> config_env]

\* os.environ[k] = v for every k of keys
SetEnv(env, keys, v) == [k \in EnvVars |-> IF k \in keys THEN v ELSE env[k]]

\* if original is not None: os.environ[k] = original
\* elif k in os.environ: del os.environ[k]
RestoreVar(env, k, original) == [env EXCEPT ![k] = original]


(***************************************************************************)
(* AIChatUtility.configure_llm.                                            *)
(***************************************************************************)
Providers ==
    {"ollama", "openai", "groq", "azure", "huggingface", "cerebras",
     "openrouter", "anthropic", "aws", "unsupported"}

\* self.http_proxy or self.https_proxy
HasProxy(u) == u.http_proxy # None \/ u.https_proxy # None

\* proxy_url = self.https_proxy or self.http_proxy
ProxyUrl(u) == IF u.https_proxy # None THEN u.https_proxy ELSE u.http_proxy

\* if self.http_proxy or self.https_proxy:
\*     os.environ["HTTP_PROXY"] = proxy_url; os.environ["HTTPS_PROXY"] = proxy_url
TemporaryProxy(u, env) ==
    IF HasProxy(u) THEN SetEnv(env, {"HTTP_PROXY", "HTTPS_PROXY"}, ProxyUrl(u))
    ELSE env

\* The finally block "Restore original environment variables".
RestoreProxy(env, original_http_proxy, original_https_proxy) ==
    RestoreVar(RestoreVar(env, "HTTP_PROXY", original_http_proxy),
               "HTTPS_PROXY", original_https_proxy)

\* What configure_llm leaves behind: the environment, self.model, the
\* exception it raises (NoExc when it returns) and the values it read from
\* os.environ.  ctor is the outcome of the provider's model constructor: NoExc,
\* or the exception it raises.
Configured(env, ctor, reads) ==
    [environ |-> env, model |-> IF ctor = NoExc THEN "model" ELSE None,
     exc |-> ctor, reads |-> reads]

\* A faulty variant of Rejected: the missing field is not noticed.
RejectedIgnored(env, message) ==
    [environ |-> env, model |-> "model", exc |-> NoExc, reads |-> {}]

Rejected(env, message) ==
    [environ |-> env, model |-> None, exc |-> Exc("ValueError", message),
     reads |-> {}]

\* openai, groq, cerebras, openrouter: the proxy goes into an httpx client
\* owned by the model; os.environ is not touched.
ConfigureWithClient(u, env, ctor) == Configured(env, ctor, {})

ConfigureAzure(u, env, ctor) ==
    LET env1 == [env EXCEPT !["AZURE_INFERENCE_CREDENTIAL"] = u.api_key]
        original_http_proxy == env1["HTTP_PROXY"]
        original_https_proxy == env1["HTTPS_PROXY"]
        env2 == TemporaryProxy(u, env1)
    IN  Configured(RestoreProxy(env2, original_http_proxy, original_https_proxy),
                   ctor, {original_http_proxy, original_https_proxy})

ConfigureAws(u, env, ctor) ==
    LET original_http_proxy == env["HTTP_PROXY"]
        original_https_proxy == env["HTTPS_PROXY"]
        env2 == TemporaryProxy(u, env)
    IN  Configured(RestoreProxy(env2, original_http_proxy, original_https_proxy),
                   ctor, {original_http_proxy, original_https_proxy})

\* original_http_proxy = self.http_proxy; original_https_proxy = self.https_proxy
ConfigureAnthropic(u, env, ctor) ==
    LET original_http_proxy == u.http_proxy
        original_https_proxy == u.https_proxy
        env2 == TemporaryProxy(u, env)
    IN  Configured(RestoreProxy(env2, original_http_proxy, original_https_proxy),
                   ctor, {})

\* With a proxy the four variables are set and restored only in the except
\* branch, which raises ValueError("HuggingFace proxy setup failed: ...").
ConfigureHuggingFace(u, env, ctor) ==
    IF HasProxy(u)
    THEN LET original_env == [k \in ProxyVars |-> env[k]]
             env2 == SetEnv(env, ProxyVars, ProxyUrl(u))
             reads == {original_env[k] : k \in ProxyVars}
         IN  IF ctor = NoExc
             THEN Configured(env2, NoExc, reads)
             ELSE [environ |-> [k \in EnvVars |->
                                   IF k \in ProxyVars THEN original_env[k] ELSE env2[k]],
                   model |-> None,
                   exc |-> Exc("ValueError", "HuggingFace proxy setup failed"),
                   reads |-> reads]
    ELSE Configured(env, ctor, {})

ConfigureLLM(u, env, ctor) ==
    CASE u.llm_provider = "ollama" -> Configured(env, ctor, {})
      [] u.llm_provider = "openai" ->
            IF u.api_key = None THEN Rejected(env, "API key is required for OpenAI")
            ELSE ConfigureWithClient(u, env, ctor)
      [] u.llm_provider = "groq" ->
            IF u.api_key = None THEN Rejected(env, "API key is required for Groq")
            ELSE ConfigureWithClient(u, env, ctor)
      [] u.llm_provider = "azure" ->
            IF u.api_key = None THEN Rejected(env, "API key is required for Azure AI")
            ELSE ConfigureAzure(u, env, ctor)
      [] u.llm_provider = "huggingface" ->
            IF u.api_key = None THEN Rejected(env, "API key is required for HuggingFace")
            ELSE IF u.model_name = None
                 THEN Rejected(env, "Model name is required for HuggingFace")
                 ELSE ConfigureHuggingFace(u, env, ctor)
      [] u.llm_provider = "cerebras" ->
            IF u.api_key = None THEN Rejected(env, "API key is required for Cerebras")
            ELSE IF u.model_name = None
                 THEN Rejected(env, "Model name is required for Cerebras")
                 ELSE ConfigureWithClient(u, env, ctor)
      [] u.llm_provider = "openrouter" ->
            IF u.api_key = None THEN Rejected(env, "API key is required for OpenRouter")
            ELSE IF u.model_name = None
                 THEN Rejected(env, "Model name is required for OpenRouter")
                 ELSE ConfigureWithClient(u, env, ctor)
      [] u.llm_provider = "anthropic" ->
            IF u.api_key = None THEN Rejected(env, "API key is required for Anthropic")
            ELSE IF u.model_name = None
                 THEN Rejected(env, "Model name is required for Anthropic")
                 ELSE ConfigureAnthropic(u, env, ctor)
      [] u.llm_provider = "aws" ->
            IF u.model_name = None
            THEN Rejected(env, "Model name is required for AWS BedRock")
            ELSE IF u.config_file_content = {}
                 THEN Rejected(env, "Configuration file is required for AWS BedRock")
                 ELSE IF ~(AwsRequired \subseteq u.config_file_content)
                      THEN Rejected(env, AwsMissingMessage(AwsRequired \ u.config_file_content))
                      ELSE ConfigureAws(u, env, ctor)
      [] OTHER -> Rejected(env, "Unsupported LLM provider")

\* unset_proxy_variables: each variable is restored only if set_proxy_variables
\* stored its original (hasattr(self, '_original_...')).  set_proxy_variables
\* has no caller (its calls in generate_response are commented out), so
\* has_original stays FALSE.
UnsetProxyVariables(u, env) ==
    IF u.llm_provider = "ollama" \/ ~u.has_original THEN env
    ELSE [k \in EnvVars |-> IF k \in ProxyVars THEN u.original[k] ELSE env[k]]

(***************************************************************************)
(* Inputs of a turn.                                                       *)
(***************************************************************************)
\* A tool configuration is what its MCP server does when launched: "bad" names
\* a command that does not exist (the spawn always fails), "empty" serves no
\* function, "tools" serves two functions.
ToolKinds == {"bad", "empty", "tools"}

\* The lists of up to MaxMixed tools of any kind, and the longer lists of
\* working tools.
ConfigLists ==
    UNION {[1..n -> ToolKinds] : n \in 0..MaxMixed}
    \cup {[i \in 1..n |-> "tools"] : n \in (MaxMixed + 1)..MaxTools}

\* The functions the server of the tool at position tool advertises.
Catalog(tool, kind) ==
    IF kind = "tools"
    THEN <<[tool |-> tool, name |-> "f1"], [tool |-> tool, name |-> "f2"]>>
    ELSE <<>>

\* The model endpoint: reachable, or unreachable (every call to it raises a
\* transport error).
Endpoints == {"ok", "unreachable"}

\* A message of a conversation: {"role": ..., "content": ...}.  id is the
\* position of a stored ChatMessage in its session by creation_dt, 0 for a
\* message that is not stored.
Msg(role, content, id) == [role |-> role, content |-> content, id |-> id]

\* {"role": "system", "content": self.system_prompt}
SystemPrompt == Msg("system", "system prompt", 0)

\* {"role": "user", "content": user_message}: request.message
UserMessage == Msg("user", "question", 0)

\* The i-th ChatMessage of the session: users and the assistant alternate.
StoredMessage(i) == Msg(IF i % 2 = 1 THEN "user" ELSE "assistant", "stored", i)

\* .limit(50)
HistoryLimit == 50

\* db.query(ChatMessage).filter(msg_cht_id == chatSessionId)
\*   .order_by(ChatMessage.creation_dt.asc()).limit(50).all()
\* for a session that holds n messages.
QueryHistory(n) ==
    [i \in 1..(IF n < HistoryLimit THEN n ELSE HistoryLimit) |-> StoredMessage(i)]

\* conversation_history of chat_with_ai: the system prompt, the messages
\* queried, the current user message.
conversation_history(n) == <<SystemPrompt>> \o QueryHistory(n) \o <<UserMessage>>

\* A faulty variant of HistoryWithUser: the history is replaced.
HistoryWithUserOnly(u) == <<UserMessage>>

\* if include_history: self.message_history.append({"role": "user", ...})
HistoryWithUser(u) ==
    IF u.include_history THEN Append(u.message_history, UserMessage)
    ELSE u.message_history

\* langchain_messages: one message per entry of message_history, or the
\* current message alone without include_history.
LangchainMessages(u, message_history) ==
    IF u.include_history
    THEN SelectSeq(message_history, LAMBDA m : m.role \in {"system", "user", "assistant"})
    ELSE <<UserMessage>>

\* if include_history: self.message_history.append({"role": "assistant", ...})
HistoryWithResponse(u, response_text) ==
    IF u.include_history
    THEN Append(u.message_history, Msg("assistant", response_text, 0))
    ELSE u.message_history

\* The functions of the first n tool configs of cfgs.
RECURSIVE ToolsOfConfigs(_, _)
ToolsOfConfigs(cfgs, n) ==
    IF n = 0 THEN <<>> ELSE ToolsOfConfigs(cfgs, n - 1) \o Catalog(n, cfgs[n])

\* AIChatUtility.__init__
Utility(llm_provider, api_key, http_proxy, https_proxy, agent_mcp_configs) ==
    [llm_provider |-> llm_provider,
     model_name |-> "model-name",
     api_key |-> api_key,
     config_file_content |-> AwsRequired,
     http_proxy |-> http_proxy,
     https_proxy |-> https_proxy,
     agent_mcp_configs |-> agent_mcp_configs,
     mcp_server_config |-> None,
     include_history |-> TRUE,
     session |-> 0,
     by_router |-> FALSE,
     history_given |-> <<SystemPrompt>>,
     message_history |-> <<SystemPrompt>>,
     langchain_messages |-> <<>>,
     tool_env_given |-> NoEnv,
     tool_env |-> NoEnv,
     server_params |-> NoEnv,
     model |-> None,
     has_original |-> FALSE,
     original |-> [k \in ProxyVars |-> None]]

(***************************************************************************)
(* State.                                                                  *)
(***************************************************************************)
VARIABLES
    environ,     \* os.environ (shared by the turns)
    util,        \* util[t]: the fields of turn t's AIChatUtility
    endpoint,    \* endpoint[t]: the model endpoint of turn t
    pc,          \* pc[t]: where turn t is suspended
    idx,         \* idx[t]: index argument of the running create_nested_connections
    stack,       \* stack[t]: suspended create_nested_connections frames, innermost last
    all_tools,   \* all_tools[t]: the list all_tools
    open,        \* open[t]: the live connections, in order of opening
    nconn,       \* nconn[t]: connections opened so far (the last connection id)
    events,      \* events[t]: log of connection opens, closes and failures: <<what, connection, tool>>
    pending,     \* pending[t]: value being returned or exception being raised
    sem,         \* sem[t]: value of self._connection_semaphore
    attempt,     \* attempt[t]: loop variable of the direct model call
    last_error,  \* last_error[t]
    result,      \* result[t]: what generate_response returned
    budget,      \* budget[t]: transient failures still to be injected
    faults,      \* faults[t]: kinds of failure that happened in the turn
    calls,       \* calls[t]: log of the model invocations of the turn
    tries,       \* tries[t]: loop variable attempt of _create_mcp_connection_with_retry
    delays,      \* delays[t]: milliseconds slept between the attempts of the running retry loop
    aborted,     \* aborted[t]: whether the task of turn t was cancelled, and what had happened by then
    environ0,    \* os.environ when the process started
    env0,        \* env0[t]: os.environ when the turn started
    observed     \* observed[t]: values read from os.environ on behalf of t

vars == <<environ, util, endpoint, pc, idx, stack, all_tools, open, nconn,
          events, pending, sem, attempt, last_error, result, budget, faults,
          calls, tries, delays, aborted, environ0, env0, observed>>

\* The history variables: StartTurn writes the environment ones, Cancel the
\* abort.
ghostVars == <<aborted, environ0, env0, observed>>

\* The variables of the retry loops.
retryVars == <<tries, delays>>

\* The variables of the connection machinery.
connVars == <<idx, stack, all_tools, open, nconn, events, pending, sem>>

NoPending == [kind |-> "none", value |-> None, exc |-> NoExc]
Returning(v) == [kind |-> "return", value |-> v, exc |-> NoExc]
Raising(e) == [kind |-> "raise", value |-> None, exc |-> e]

\* A result dict: keys are the keys it holds; a key it does not hold has the
\* default of its type.
NoResult == [keys |-> {}, success |-> FALSE, response |-> "", error |-> <<>>,
             used_tools |-> FALSE]

CleanEnv == [k \in EnvVars |-> None]

\* The task of the turn has not been cancelled.
NotAborted == [is |-> FALSE, nconn |-> 0, ncalls |-> 0]

\* The state after construction of the turns' utilities: the turns of active
\* have a request waiting, the others never run; transient is the number of
\* transient failures the environment may inject into each turn.
Boot(active, utils, eps, env, transient) ==
    /\ environ = env
    /\ util = utils
    /\ endpoint = eps
    /\ pc = [t \in Turns |-> IF t \in active THEN "idle" ELSE "off"]
    /\ idx = [t \in Turns |-> 0]
    /\ stack = [t \in Turns |-> <<>>]
    /\ all_tools = [t \in Turns |-> <<>>]
    /\ open = [t \in Turns |-> <<>>]
    /\ nconn = [t \in Turns |-> 0]
    /\ events = [t \in Turns |-> <<>>]
    /\ pending = [t \in Turns |-> NoPending]
    /\ sem = [t \in Turns |-> SemaphoreSize]
    /\ attempt = [t \in Turns |-> 0]
    /\ last_error = [t \in Turns |-> NoExc]
    /\ result = [t \in Turns |-> NoResult]
    /\ budget = [t \in Turns |-> transient]
    /\ faults = [t \in Turns |-> {}]
    /\ calls = [t \in Turns |-> <<>>]
    /\ tries = [t \in Turns |-> 0]
    /\ delays = [t \in Turns |-> <<>>]
    /\ aborted = [t \in Turns |-> NotAborted]
    /\ environ0 = env
    /\ env0 = [t \in Turns |-> env]
    /\ observed = [t \in Turns |-> {}]

IdleUtility == Utility("ollama", None, None, None, <<>>)

\* One turn, any tool configuration list, a groq model with or without its key.
Init ==
    \E cfgs \in ConfigLists, key \in {None, "gsk-A"}, ep \in Endpoints :
        Boot({"A"},
             [t \in Turns |-> IF t = "A" THEN Utility("groq", key, None, None, cfgs)
                              ELSE IdleUtility],
             [t \in Turns |-> IF t = "A" THEN ep ELSE "ok"],
             CleanEnv, MaxFaults)

(***************************************************************************)
(* generate_response: results.                                             *)
(***************************************************************************)
\* response_text = str(response_content) if response_content else "No response generated"
ResponseText(content) == IF content = "" THEN "No response generated" ELSE content

Success(text, used_tools) ==
    [keys |-> {"success", "response", "used_tools"},
     success |-> TRUE, response |-> text, error |-> <<>>, used_tools |-> used_tools]

\* A failure dict; error is the concatenation of the parts.
Failure(error, text) ==
    [keys |-> {"success", "error", "response"},
     success |-> FALSE, response |-> text, error |-> error, used_tools |-> FALSE]

\* A faulty variant of OuterHandler: the exception leaves generate_response,
\* which returns no result.
OuterHandlerRaises(e) == NoResult

\* The handler `except Exception as e` at the end of generate_response.
OuterHandler(e) ==
    IF MentionsNetwork(e)
    THEN Failure(<<"Error generating AI response: ", e.str, ". ",
                   "This appears to be a network connectivity issue. If you're in a corporate network, please ensure your proxy settings are correctly configured.">>,
                 "I apologize, but I'm having trouble connecting to the AI service. Please check your network connection and try again.")
    ELSE Failure(<<"Error generating AI response: ", e.str>>,
                 "I apologize, but I encountered an error while processing your request. Please try again.")

\* "Connection failed after {max_retries} attempts ..." once the retries of
\* the direct model call are exhausted.
ConnectionFailure(u) ==
    Failure(<<"Connection failed after 3 attempts. This might be due to proxy configuration issues in your corporate network. Please check your proxy settings.">>
            \o (IF HasProxy(u) THEN <<" Current proxy settings">>
                ELSE <<" No proxy is configured - you may need to set HTTP_PROXY and HTTPS_PROXY environment variables or configure them in the application.">>),
            "Unable to connect to the AI service. Please check your network connection and proxy settings.")

\* A faulty variant of AfterRetries: the transport error is not recognised.
AfterRetriesUncaptured(u, e) ==
    Failure(<<"Unexpected error: All retry attempts failed without an error being captured">>,
            "I apologize, but I encountered an unexpected error while processing your request. Please try again.")

\* After the retry loop ("If we reach here, all retries failed"): the
\* connection failure for a transport error, the outer handler for another
\* error, and the result for no error captured.
AfterRetries(u, e) ==
    IF e # NoExc
    THEN IF IsTransportError(e) THEN ConnectionFailure(u) ELSE OuterHandler(e)
    ELSE Failure(<<"Unexpected error: All retry attempts failed without an error being captured">>,
                 "I apologize, but I encountered an unexpected error while processing your request. Please try again.")

(***************************************************************************)
(* What the environment can do to a turn.                                  *)
(***************************************************************************)
\* A transient failure can still be injected into turn t.
CanFail(t) == budget[t] > 0

Spend(t, n) == [budget EXCEPT ![t] = @ - n]

Fault(t, kind) == [faults EXCEPT ![t] = @ \cup {kind}]

\* Outcomes of one model invocation: the content of the final message, or
\* the exception raised.
ModelOutcomes(t) ==
    IF endpoint[t] = "unreachable"
    THEN {[exc |-> Exc("ConnectError", "All connection attempts failed"), content |-> ""]}
    ELSE {[exc |-> NoExc, content |-> c] : c \in {"answer", ""}}
         \cup (IF CanFail(t) THEN {[exc |-> e, content |-> ""] : e \in ModelErrors}
               ELSE {})

Top(seq) == seq[Len(seq)]
Pop(seq) == SubSeq(seq, 1, Len(seq) - 1)

(***************************************************************************)
(* generate_response, up to its first await: the user message, the LLM     *)
(* configuration and the choice between tools and the direct call.         *)
(***************************************************************************)
\* What load_agent_specific_tools returns, up to its first await:
\* if not self.agent_mcp_configs: return []; otherwise the functions of the
\* configs it connects to (self.mcp_server_config is not read).
load_agent_specific_tools(u) ==
    IF u.agent_mcp_configs = <<>> THEN <<>>
    ELSE ToolsOfConfigs(u.agent_mcp_configs, Len(u.agent_mcp_configs))

\* Where generate_response goes once the model is configured.  With only the
\* legacy mcp_server_config, load_agent_specific_tools returns [] (it reads
\* agent_mcp_configs), so the direct call follows as well.
AfterConfigure(u) ==
    IF u.agent_mcp_configs # <<>> THEN "enter"
    ELSE IF u.mcp_server_config # None /\ load_agent_specific_tools(u) # <<>>
         THEN "legacy"
         ELSE "direct"

StartTurn(t) ==
    /\ pc[t] = "idle"
    /\ \E ctor \in {NoExc} \cup
                   (IF CanFail(t) /\ ConfigureLLM(util[t], environ, NoExc).exc = NoExc
                    THEN {Exc("Exception", "model constructor failed")} ELSE {}) :
          LET c == ConfigureLLM(util[t], environ, ctor)
          IN  /\ environ' = c.environ
              /\ util' = [util EXCEPT
                            ![t].model = c.model,
                            ![t].message_history = HistoryWithUser(util[t]),
                            ![t].langchain_messages =
                                IF c.exc = NoExc
                                THEN LangchainMessages(util[t], HistoryWithUser(util[t]))
                                ELSE @,
                            ![t].server_params =
                                IF c.exc = NoExc /\ AfterConfigure(util[t]) = "enter"
                                THEN get_server_params(util[t], c.environ, util[t].tool_env).env
                                ELSE @,
                            ![t].tool_env =
                                IF c.exc = NoExc /\ AfterConfigure(util[t]) = "enter"
                                THEN get_server_params(util[t], c.environ, util[t].tool_env).config_env
                                ELSE @]
              /\ observed' = [observed EXCEPT ![t] = @ \cup (c.reads \ {None})]
              /\ env0' = [env0 EXCEPT ![t] = environ]
              /\ budget' = IF ctor # NoExc THEN Spend(t, 1) ELSE budget
              /\ IF c.exc # NoExc
                 THEN /\ result' = [result EXCEPT ![t] = OuterHandler(c.exc)]
                      /\ faults' = Fault(t, "config")
                      /\ pc' = [pc EXCEPT ![t] = "done"]
                 ELSE /\ pc' = [pc EXCEPT ![t] = AfterConfigure(util[t])]
                      /\ UNCHANGED <<result, faults>>
    /\ UNCHANGED <<endpoint, connVars, attempt, last_error, calls, environ0,
                   aborted, retryVars>>

(***************************************************************************)
(* load_agent_specific_tools_with_persistent_connections:                  *)
(* create_nested_connections(contexts, index).                             *)
(***************************************************************************)
Contexts(t) == util[t].agent_mcp_configs

\* A faulty variant of BaseCase: the agent is run even without a tool.
BaseCaseAlwaysAgent(tools) == "agent"

\* The base case of create_nested_connections:
\* if not all_tools: return None, else the agent is created and run.
BaseCase(tools) == IF tools = <<>> THEN "return" ELSE "agent"

\* Entry of create_nested_connections: the base case, or the next connection.
EnterNested(t) ==
    /\ pc[t] = "enter"
    /\ IF idx[t] >= Len(Contexts(t))
       THEN IF BaseCase(all_tools[t]) = "return"
            THEN /\ pending' = [pending EXCEPT ![t] = Returning(None)]
                 /\ pc' = [pc EXCEPT ![t] = "unwind"]
            ELSE /\ pc' = [pc EXCEPT ![t] = "agent"]
                 /\ UNCHANGED pending
       ELSE /\ pc' = [pc EXCEPT ![t] = "acquire"]
            /\ UNCHANGED pending
    /\ UNCHANGED <<environ, util, endpoint, idx, stack, all_tools, open, nconn,
                   events, sem, attempt, last_error, result, budget, faults,
                   calls, ghostVars, retryVars>>

\* _create_mcp_connection_with_retry: async with self._connection_semaphore,
\* then for attempt in range(self._max_retries)
AcquireSemaphore(t) ==
    /\ pc[t] = "acquire"
    /\ sem[t] > 0
    /\ sem' = [sem EXCEPT ![t] = @ - 1]
    /\ tries' = [tries EXCEPT ![t] = 0]
    /\ delays' = [delays EXCEPT ![t] = <<>>]
    /\ pc' = [pc EXCEPT ![t] = "create"]
    /\ UNCHANGED <<environ, util, endpoint, idx, stack, all_tools, open, nconn,
                   events, pending, attempt, last_error, result, budget, faults,
                   calls, ghostVars>>

\* A frame of create_nested_connections suspended in its recursive call: in
\* the body of `async with` (conn is the connection it holds) or in the
\* except handler.
Frame(index, conn, where) == [index |-> index, conn |-> conn, where |-> where]

\* A faulty variant of Handler: the frame has no except clause and the
\* exception leaves it.
HandlerReraises(t, index, rest) ==
    /\ stack' = [stack EXCEPT ![t] = rest]
    /\ idx' = idx
    /\ pending' = [pending EXCEPT ![t] = Raising(Exc("Exception", "connection failed"))]
    /\ pc' = [pc EXCEPT ![t] = "unwind"]

\* The except handler of frame index: return await
\* create_nested_connections(contexts, index + 1).
Handler(t, index, rest) ==
    /\ stack' = [stack EXCEPT ![t] = Append(rest, Frame(index, 0, "except"))]
    /\ idx' = [idx EXCEPT ![t] = index + 1]
    /\ pending' = [pending EXCEPT ![t] = NoPending]
    /\ pc' = [pc EXCEPT ![t] = "enter"]

\* Errors the call stdio_client(server_params) can raise.
CreateErrors ==
    { Exc("BlockingIOError", "Resource temporarily unavailable"),
      Exc("OSError", "Too many open files") }

\* "Resource temporarily unavailable" in str(e) or "BlockingIOError" in str(e)
IsContention(e) ==
    \/ Contains(e.str, "Resource temporarily unavailable")
    \/ Contains(e.str, "BlockingIOError")

\* additional_delay = 1.0 * (attempt + 1), in milliseconds
AdditionalDelay(k) == 1000 * (k + 1)

\* delay = self._base_delay * (2 ** (attempt - 1)), slept before attempt > 0
ConnectionBackoff(k) == self_base_delay * (2 ^ (k - 1))

\* What is slept between the failure e of attempt k and attempt k + 1.
ConnectionDelay(k, e) ==
    (IF IsContention(e) THEN AdditionalDelay(k) ELSE 0)
    + ConnectionBackoff(k + 1)

\* One attempt of the retry loop: return stdio_client(server_params) creates
\* the context manager (nothing is spawned yet) and leaving the function
\* releases the semaphore; when the call raises, the last attempt re-raises
\* and an earlier one sleeps and continues with the next attempt.
CreateClient(t) ==
    /\ pc[t] = "create"
    /\ \/ /\ sem' = [sem EXCEPT ![t] = @ + 1]
          /\ pc' = [pc EXCEPT ![t] = "spawn"]
          /\ UNCHANGED <<idx, stack, pending, budget, faults, retryVars>>
       \/ \E e \in CreateErrors :
             /\ CanFail(t)
             /\ budget' = Spend(t, 1)
             /\ faults' = Fault(t, "create")
             /\ IF tries[t] = self_max_retries - 1
                THEN /\ sem' = [sem EXCEPT ![t] = @ + 1]
                     /\ Handler(t, idx[t], stack[t])
                     /\ UNCHANGED retryVars
                ELSE /\ tries' = [tries EXCEPT ![t] = @ + 1]
                     /\ delays' = [delays EXCEPT ![t] =
                                     Append(@, ConnectionDelay(tries[t], e))]
                     /\ UNCHANGED <<sem, idx, stack, pending, pc>>
    /\ UNCHANGED <<environ, util, endpoint, all_tools, open, nconn, events,
                   attempt, last_error, result, calls, ghostVars>>

\* async with connection_manager as (read, write): the subprocess is spawned.
Spawn(t) ==
    /\ pc[t] = "spawn"
    /\ LET kind == Contexts(t)[idx[t] + 1]
       IN  \/ /\ kind # "bad"
              /\ nconn' = [nconn EXCEPT ![t] = @ + 1]
              /\ open' = [open EXCEPT ![t] =
                            Append(@, [id |-> nconn[t] + 1, tool |-> idx[t] + 1,
                                       ready |-> FALSE])]
              /\ events' = [events EXCEPT ![t] =
                              Append(@, <<"open", nconn[t] + 1, idx[t] + 1>>)]
              /\ stack' = [stack EXCEPT ![t] =
                             Append(@, Frame(idx[t], nconn[t] + 1, "with"))]
              /\ pc' = [pc EXCEPT ![t] = "handshake"]
              /\ UNCHANGED <<idx, pending, budget, faults>>
           \/ /\ kind = "bad" \/ CanFail(t)
              /\ budget' = IF kind = "bad" THEN budget ELSE Spend(t, 1)
              /\ faults' = Fault(t, "spawn")
              /\ events' = [events EXCEPT ![t] = Append(@, <<"fail", 0, idx[t] + 1>>)]
              /\ Handler(t, idx[t], stack[t])
              /\ UNCHANGED <<open, nconn>>
    /\ UNCHANGED <<environ, util, endpoint, all_tools, sem, attempt, last_error,
                   result, calls, ghostVars, retryVars>>

\* A faulty variant of Handshake: the next connection is started without
\* waiting for session.initialize().
HandshakeNotAwaited(t) ==
    /\ pc[t] = "handshake"
    /\ pc' = [pc EXCEPT ![t] = "load"]
    /\ UNCHANGED <<environ, util, endpoint, idx, stack, all_tools, open, nconn,
                   events, pending, sem, attempt, last_error, result, budget,
                   faults, calls, ghostVars, retryVars>>

\* session = ClientSession(read, write); await session.initialize()
Handshake(t) ==
    /\ pc[t] = "handshake"
    /\ \/ /\ open' = [open EXCEPT ![t][Len(open[t])].ready = TRUE]
          /\ pc' = [pc EXCEPT ![t] = "load"]
          /\ UNCHANGED <<pending, budget, faults, events>>
       \/ /\ CanFail(t)
          /\ budget' = Spend(t, 1)
          /\ faults' = Fault(t, "handshake")
          /\ pending' = [pending EXCEPT ![t] = Raising(Exc("McpError", "initialize failed"))]
          /\ events' = [events EXCEPT ![t] =
                          Append(@, <<"fail", Top(stack[t]).conn, Top(stack[t]).index + 1>>)]
          /\ pc' = [pc EXCEPT ![t] = "unwind"]
          /\ UNCHANGED open
    /\ UNCHANGED <<environ, util, endpoint, idx, stack, all_tools, nconn,
                   sem, attempt, last_error, result, calls, ghostVars, retryVars>>

\* The tools load_mcp_tools(session) returns: one per advertised function,
\* bound to the session of connection conn.
LoadedTools(conn, tool, kind) ==
    LET catalog == Catalog(tool, kind)
    IN  [i \in 1..Len(catalog) |->
            [conn |-> conn, tool |-> catalog[i].tool, name |-> catalog[i].name]]

\* tools = await load_mcp_tools(session); all_tools.extend(tools);
\* return await create_nested_connections(contexts, index + 1)
LoadTools(t) ==
    /\ pc[t] = "load"
    /\ LET f == Top(stack[t])
       IN  \/ /\ all_tools' = [all_tools EXCEPT ![t] =
                     @ \o LoadedTools(f.conn, f.index + 1, Contexts(t)[f.index + 1])]
              /\ idx' = [idx EXCEPT ![t] = f.index + 1]
              /\ pc' = [pc EXCEPT ![t] = "enter"]
              /\ UNCHANGED <<pending, budget, faults>>
           \/ /\ CanFail(t)
              /\ budget' = Spend(t, 1)
              /\ faults' = Fault(t, "load")
              /\ pending' = [pending EXCEPT ![t] = Raising(Exc("McpError", "list_tools failed"))]
              /\ pc' = [pc EXCEPT ![t] = "unwind"]
              /\ UNCHANGED <<all_tools, idx>>
    /\ UNCHANGED <<environ, util, endpoint, stack, open, nconn, events, sem,
                   attempt, last_error, result, calls, ghostVars, retryVars>>

\* The clarifying AIMessage create_nested_connections returns for a tool call
\* that failed on its arguments.
ClarifyingMessage(e) ==
    IF Contains(e.str, "get_column_details") /\ Contains(e.str, "table_name")
    THEN "I tried to get column details for a table, but the function requires both a table name AND a schema."
    ELSE "I encountered an error when trying to use a tool."

\* A faulty variant of AgentOutcome: every error of agent.ainvoke is re-raised.
AgentOutcomeReraises(o) ==
    IF o.exc = NoExc THEN Returning(o.content) ELSE Raising(o.exc)

\* How the base case of create_nested_connections ends for an outcome of
\* agent.ainvoke.
AgentOutcome(o) ==
    IF o.exc = NoExc THEN Returning(o.content)
    ELSE IF IsToolCallError(o.exc) THEN Returning(ClarifyingMessage(o.exc))
         ELSE Raising(o.exc)

AgentFault(o) ==
    IF o.exc = NoExc THEN {}
    ELSE IF IsToolCallError(o.exc) THEN {"tool_call"} ELSE {"agent"}

\* agent = create_react_agent(self.model, all_tools);
\* agent_response = await agent.ainvoke(...), with its except and finally.
AgentRun(t) ==
    /\ pc[t] = "agent"
    /\ \E o \in ModelOutcomes(t) :
          /\ pending' = [pending EXCEPT ![t] = AgentOutcome(o)]
          /\ calls' = [calls EXCEPT ![t] = Append(@, [via |-> "agent", exc |-> o.exc])]
          /\ faults' = [faults EXCEPT ![t] = @ \cup AgentFault(o)]
          /\ budget' = IF o.exc # NoExc /\ endpoint[t] = "ok" THEN Spend(t, 1) ELSE budget
    /\ environ' = UnsetProxyVariables(util[t], environ)
    /\ pc' = [pc EXCEPT ![t] = "unwind"]
    /\ UNCHANGED <<util, endpoint, idx, stack, all_tools, open, nconn, events,
                   sem, attempt, last_error, result, ghostVars, retryVars>>

\* The live connections without connection conn.
Without(conns, conn) ==
    LET Keep(c) == c.id # conn IN SelectSeq(conns, Keep)

\* A faulty variant of ClosedBy: the oldest live connection is closed.
ClosedByOldest(f, conns) == conns[1].id

\* The connection that leaving the `async with` of frame f closes: the one
\* the frame entered.
ClosedBy(f, conns) == f.conn

\* A frame of create_nested_connections is left.  A frame in its `async with`
\* closes its connection (__aexit__ of the session and of stdio_client); an
\* exception that leaves the `async with`, or that the close raises, is caught
\* by the frame's except handler.
Unwind(t) ==
    /\ pc[t] = "unwind"
    /\ stack[t] # <<>>
    /\ LET f == Top(stack[t])
           rest == Pop(stack[t])
       IN  IF f.where = "with"
           THEN /\ open' = [open EXCEPT ![t] = Without(@, ClosedBy(f, open[t]))]
                /\ events' = [events EXCEPT ![t] =
                                Append(@, <<"close", ClosedBy(f, open[t]), f.index + 1>>)]
                /\ \/ /\ \/ pending[t].kind = "return"
                         \/ pending[t].kind = "raise" /\ ~IsException(pending[t].exc)
                      /\ stack' = [stack EXCEPT ![t] = rest]
                      /\ UNCHANGED <<idx, pending, pc, budget, faults>>
                   \/ /\ pending[t].kind = "raise"
                      /\ IsException(pending[t].exc)
                      /\ Handler(t, f.index, rest)
                      /\ UNCHANGED <<budget, faults>>
                   \/ /\ CanFail(t)
                      /\ budget' = Spend(t, 1)
                      /\ faults' = Fault(t, "teardown")
                      /\ Handler(t, f.index, rest)
           ELSE /\ stack' = [stack EXCEPT ![t] = rest]
                /\ UNCHANGED <<open, events, idx, pending, pc, budget, faults>>
    /\ UNCHANGED <<environ, util, endpoint, all_tools, nconn, sem, attempt,
                   last_error, result, calls, ghostVars, retryVars>>

\* The awaits of establishing the connections and of running the agent at
\* which the task of a turn can be cancelled.
CancelPoints == {"create", "spawn", "handshake", "load", "agent"}

\* The turns whose request can be aborted.
Abortable == {"A"}

\* The task of turn t is cancelled: CancelledError is raised at the await it is
\* suspended at (the sleep of the retry loop, inside `async with
\* self._connection_semaphore`, for "create") and leaves the try blocks
\* around agent.ainvoke (its finally runs) and of _managed_mcp_session.
Cancel(t) ==
    /\ t \in Abortable
    /\ ~aborted[t].is
    /\ pc[t] \in CancelPoints
    /\ pc[t] = "create" => tries[t] > 0
    /\ aborted' = [aborted EXCEPT ![t] =
                     [is |-> TRUE, nconn |-> nconn[t], ncalls |-> Len(calls[t])]]
    /\ pending' = [pending EXCEPT ![t] = Raising(CancelledError)]
    /\ sem' = IF pc[t] = "create" THEN [sem EXCEPT ![t] = @ + 1] ELSE sem
    /\ environ' = IF pc[t] = "agent" THEN UnsetProxyVariables(util[t], environ)
                  ELSE environ
    /\ pc' = [pc EXCEPT ![t] = "unwind"]
    /\ UNCHANGED <<util, endpoint, idx, stack, all_tools, open, nconn, events,
                   attempt, last_error, result, budget, faults, calls,
                   environ0, env0, observed, retryVars>>

\* What load_agent_specific_tools_with_persistent_connections returns: the
\* value of the outermost create_nested_connections, or None from
\* `except Exception as e: ... return None`.
AgentResponse(p) == IF p.kind = "return" THEN p.value ELSE None

\* Back in generate_response: a response with messages is the result,
\* otherwise the direct model invocation follows.
ReturnToGenerate(t) ==
    /\ pc[t] = "unwind"
    /\ stack[t] = <<>>
    /\ LET agent_response == AgentResponse(pending[t])
       IN  IF pending[t].kind = "raise" /\ ~IsException(pending[t].exc)
           THEN /\ pc' = [pc EXCEPT ![t] = "cancelled"]
                /\ UNCHANGED <<result, delays, util>>
           ELSE IF agent_response # None
           THEN /\ result' = [result EXCEPT ![t] =
                                Success(ResponseText(agent_response), TRUE)]
                /\ util' = [util EXCEPT ![t].message_history =
                               HistoryWithResponse(util[t], ResponseText(agent_response))]
                /\ pc' = [pc EXCEPT ![t] = "done"]
                /\ UNCHANGED delays
           ELSE /\ pc' = [pc EXCEPT ![t] = "direct"]
                /\ delays' = [delays EXCEPT ![t] = <<>>]
                /\ UNCHANGED <<result, util>>
    /\ pending' = [pending EXCEPT ![t] = NoPending]
    /\ UNCHANGED <<environ, endpoint, idx, stack, all_tools, open, nconn,
                   events, sem, attempt, last_error, budget, faults, calls,
                   tries, ghostVars>>

(***************************************************************************)
(* generate_response: the direct model invocation with its retry loop.     *)
(***************************************************************************)
\* response = await self.model.ainvoke(langchain_messages), inside
\* for attempt in range(max_retries), with the finally that unsets the proxy
\* variables.
DirectInvoke(t) ==
    /\ pc[t] = "direct"
    /\ \E o \in ModelOutcomes(t) :
          /\ budget' = IF o.exc # NoExc /\ endpoint[t] = "ok" THEN Spend(t, 1) ELSE budget
          /\ calls' = [calls EXCEPT ![t] = Append(@, [via |-> "direct", exc |-> o.exc])]
          /\ IF o.exc = NoExc
             THEN /\ result' = [result EXCEPT ![t] = Success(ResponseText(o.content), FALSE)]
                  /\ util' = [util EXCEPT ![t].message_history =
                                 HistoryWithResponse(util[t], ResponseText(o.content))]
                  /\ pc' = [pc EXCEPT ![t] = "done"]
                  /\ UNCHANGED <<last_error, faults>>
             ELSE IF IsTransportError(o.exc)
                  THEN /\ last_error' = [last_error EXCEPT ![t] = o.exc]
                       /\ faults' = Fault(t, "transport")
                       /\ UNCHANGED util
                       /\ IF attempt[t] < max_retries - 1
                          THEN /\ pc' = [pc EXCEPT ![t] = "sleep"]
                               /\ UNCHANGED result
                          ELSE /\ result' = [result EXCEPT ![t] = AfterRetries(util[t], o.exc)]
                               /\ pc' = [pc EXCEPT ![t] = "done"]
                  ELSE /\ result' = [result EXCEPT ![t] = OuterHandler(o.exc)]
                       /\ faults' = Fault(t, "model")
                       /\ pc' = [pc EXCEPT ![t] = "done"]
                       /\ UNCHANGED <<last_error, util>>
    /\ environ' = UnsetProxyVariables(util[t], environ)
    /\ UNCHANGED <<endpoint, connVars, attempt, ghostVars, retryVars>>

\* delay = base_delay * (2 ** attempt), in milliseconds
ModelBackoff(k) == base_delay * (2 ^ k)

\* await asyncio.sleep(delay); continue
RetrySleep(t) ==
    /\ pc[t] = "sleep"
    /\ attempt' = [attempt EXCEPT ![t] = @ + 1]
    /\ delays' = [delays EXCEPT ![t] = Append(@, ModelBackoff(attempt[t]))]
    /\ pc' = [pc EXCEPT ![t] = "direct"]
    /\ UNCHANGED <<environ, util, endpoint, connVars, last_error, result, budget,
                   faults, calls, tries, ghostVars>>

Next ==
    \E t \in Turns :
        \/ StartTurn(t)
        \/ EnterNested(t)
        \/ AcquireSemaphore(t)
        \/ CreateClient(t)
        \/ Spawn(t)
        \/ Handshake(t)
        \/ LoadTools(t)
        \/ AgentRun(t)
        \/ Unwind(t)
        \/ Cancel(t)
        \/ ReturnToGenerate(t)
        \/ DirectInvoke(t)
        \/ RetrySleep(t)

Spec == Init /\ [][Next]_vars

\* The same turns when nothing fails transiently: a tool either always
\* connects or never does, the model endpoint is reachable or it is not.
InitSteady ==
    \E cfgs \in ConfigLists, key \in {None, "gsk-A"}, ep \in Endpoints :
        Boot({"A"},
             [t \in Turns |-> IF t = "A" THEN Utility("groq", key, None, None, cfgs)
                              ELSE IdleUtility],
             [t \in Turns |-> IF t = "A" THEN ep ELSE "ok"],
             CleanEnv, 0)

SpecSteady == InitSteady /\ [][Next]_vars

\* A proxy variable of the process that is set before any turn runs.
AmbientProxy == "http://ambient-proxy:3128"

\* os.environ at the start of the process: no proxy variable, or all four set.
StartEnvs == {CleanEnv, SetEnv(CleanEnv, ProxyVars, AmbientProxy)}

\* The proxy settings a chat turn can be constructed with.
HttpProxies == {None, "http://proxy-a:8080"}
HttpsProxies == {None, "https://proxy-a:8443"}

\* The keys with a value in config_file_content: no file, a file without
\* region, a file with the region only, a complete file.
ConfigFiles == {{}, {"access_key", "secret_key"}, {"region"}, AwsRequired}

\* One turn of any provider, with or without its key, model name,
\* configuration file and proxies, with no tool or one tool.
InitProxy ==
    \E provider \in Providers, key \in {None, "key-A"},
       model_name \in {None, "model-name"}, config \in ConfigFiles,
       http_proxy \in HttpProxies, https_proxy \in HttpsProxies,
       cfgs \in {<<>>, <<"tools">>}, ep \in Endpoints, env \in StartEnvs :
        /\ provider # "aws" => config = AwsRequired
        /\ Boot({"A"},
             [t \in Turns |-> IF t = "A"
                              THEN [Utility(provider, key, http_proxy, https_proxy, cfgs)
                                      EXCEPT !.model_name = model_name,
                                             !.config_file_content = config]
                              ELSE IdleUtility],
             [t \in Turns |-> IF t = "A" THEN ep ELSE "ok"],
             env, MaxFaults)

SpecProxy == InitProxy /\ [][Next]_vars

\* Two concurrent turns: A has a proxy configured, B has none and its
\* provider reads the proxy variables of os.environ in configure_llm.
InitConcurrent ==
    \E providerA \in {"huggingface", "anthropic", "azure", "groq"},
       providerB \in {"azure", "aws"},
       http_proxy \in HttpProxies, https_proxy \in HttpsProxies,
       cfgs \in {<<>>, <<"tools">>}, ep \in Endpoints, env \in StartEnvs :
        /\ http_proxy # None \/ https_proxy # None
        /\ Boot({"A", "B"},
                [t \in Turns |-> IF t = "A"
                                 THEN Utility(providerA, "key-A", http_proxy, https_proxy, cfgs)
                                 ELSE Utility(providerB, "key-B", None, None, <<>>)],
                [t \in Turns |-> IF t = "A" THEN ep ELSE "ok"],
                env, 0)

SpecConcurrent == InitConcurrent /\ [][Next]_vars

\* Every request of Turns in flight at once, each with one working tool; the
\* model endpoint of A may be unreachable.
InitCrowd ==
    \E ep \in Endpoints :
        Boot(Turns,
             [t \in Turns |-> Utility("groq", "gsk-A", None, None, <<"tools">>)],
             [t \in Turns |-> IF t = "A" THEN ep ELSE "ok"],
             CleanEnv, 0)

SpecCrowd == InitCrowd /\ [][Next]_vars

\* One turn with no tool or one tool, in which every attempt of a retry loop
\* can fail.
InitRetry ==
    \E cfgs \in {<<>>, <<"tools">>}, ep \in Endpoints :
        Boot({"A"},
             [t \in Turns |-> IF t = "A" THEN Utility("groq", "gsk-A", None, None, cfgs)
                              ELSE IdleUtility],
             [t \in Turns |-> IF t = "A" THEN ep ELSE "ok"],
             CleanEnv, self_max_retries)

SpecRetry == InitRetry /\ [][Next]_vars

\* The env dicts a tool is configured with: none, its own variable, and its
\* own variable with proxy variables of its own.
ToolEnvs ==
    {NoEnv,
     [NoEnv EXCEPT !["TOOL_TOKEN"] = "token"],
     [NoEnv EXCEPT !["TOOL_TOKEN"] = "token",
                   !["HTTP_PROXY"] = "http://tool-proxy:3128",
                   !["https_proxy"] = "http://tool-proxy:3128",
                   !["NO_PROXY"] = "tool.internal"]}

\* os.environ at the start of the process with or without NO_PROXY / no_proxy.
NoProxyEnvs ==
    {CleanEnv,
     [CleanEnv EXCEPT !["NO_PROXY"] = "localhost"],
     [CleanEnv EXCEPT !["no_proxy"] = "127.0.0.1"]}

\* One turn with or without proxies and tool, whose tool has any of the env
\* dicts, in a process with or without NO_PROXY; a turn without
\* agent_mcp_configs may have the single legacy mcp_server_config (__init__
\* keeps it only then).
InitParams ==
    \E http_proxy \in HttpProxies, https_proxy \in HttpsProxies,
       cfgs \in {<<>>, <<"tools">>}, mcp_server_config \in {None, "tools"},
       tool_env \in ToolEnvs, ep \in Endpoints, env \in NoProxyEnvs :
        /\ cfgs # <<>> => mcp_server_config = None
        /\ Boot({"A"},
             [t \in Turns |-> IF t = "A"
                              THEN [Utility("groq", "gsk-A", http_proxy, https_proxy, cfgs)
                                      EXCEPT !.mcp_server_config = mcp_server_config,
                                             !.tool_env_given = tool_env,
                                             !.tool_env = tool_env]
                              ELSE IdleUtility],
             [t \in Turns |-> IF t = "A" THEN ep ELSE "ok"],
             env, 0)

SpecParams == InitParams /\ [][Next]_vars

\* The numbers of messages a chat session holds when a request arrives.
SessionLengths == {0, 1, 2, HistoryLimit, HistoryLimit + 1, HistoryLimit + 2}

\* A utility as chat_with_ai sets it up for a session of n stored messages:
\* chat_util.message_history = conversation_history, and generate_response
\* is called with include_history=True.
ByRouter(u, n) ==
    [u EXCEPT !.by_router = TRUE, !.session = n, !.include_history = TRUE,
              !.history_given = conversation_history(n),
              !.message_history = conversation_history(n)]

\* One turn, with or without tool and key: a request of chat_with_ai on a
\* session of any of the lengths, or generate_response called on a new
\* utility with or without include_history.
InitHistory ==
    \E cfgs \in {<<>>, <<"tools">>}, key \in {None, "gsk-A"}, ep \in Endpoints,
       include_history \in BOOLEAN, n \in SessionLengths \cup {-1} :
        /\ n >= 0 => include_history
        /\ Boot({"A"},
                [t \in Turns |->
                    IF t = "A"
                    THEN IF n >= 0
                         THEN ByRouter(Utility("groq", key, None, None, cfgs), n)
                         ELSE [Utility("groq", key, None, None, cfgs)
                                 EXCEPT !.include_history = include_history]
                    ELSE IdleUtility],
                [t \in Turns |-> IF t = "A" THEN ep ELSE "ok"],
                CleanEnv, 0)

SpecHistory == InitHistory /\ [][Next]_vars

(***************************************************************************)
(* Properties.                                                             *)
(***************************************************************************)
Active == {t \in Turns : pc[t] # "off"}

OpenIds(t) == {open[t][i].id : i \in 1..Len(open[t])}

\* The kinds of failure of establishing a tool connection.
ConnFaults == {"create", "spawn", "handshake", "load"}

\* C1: while the agent is executing (agent.ainvoke is awaited), every
\* connection whose functions are in the agent's toolset is still open.
C1_ToolsetConnectionsOpen ==
    \A t \in Active :
        pc[t] = "agent" =>
            \A i \in 1..Len(all_tools[t]) : all_tools[t][i].conn \in OpenIds(t)

\* The connection stack that replaying the first n events of log leaves behind;
\* <<0>> once a close did not close the connection opened last.
RECURSIVE Replay(_, _)
Replay(log, n) ==
    IF n = 0 THEN <<>>
    ELSE LET before == Replay(log, n - 1)
             e == log[n]
         IN  IF before = <<0>> THEN <<0>>
             ELSE IF e[1] = "open" THEN Append(before, e[2])
                  ELSE IF e[1] = "fail" THEN before
                       ELSE IF before # <<>> /\ Top(before) = e[2] THEN Pop(before)
                            ELSE <<0>>

\* C2: every connection opened in a turn is closed exactly once, each close
\* closes the connection opened last among those still open, and when
\* generate_response has returned none is left open.
C2_ClosedOnceInReverseOrder ==
    \A t \in Active :
        LET left == Replay(events[t], Len(events[t]))
        IN  /\ left # <<0>>
            /\ left = [i \in 1..Len(open[t]) |-> open[t][i].id]
            /\ pc[t] = "done" => left = <<>>

\* C2 witness: a turn that opened two connections and failed has returned.
C2_Witness ==
    /\ pc["A"] = "done"
    /\ nconn["A"] >= 2
    /\ ~result["A"].success
    /\ Len(SelectSeq(events["A"], LAMBDA e : e[1] = "close")) = nconn["A"]

\* The tools of the live connections conns, in the order the connections were
\* opened.
RECURSIVE ToolsOf(_, _)
ToolsOf(t, conns) ==
    IF conns = <<>> THEN <<>>
    ELSE ToolsOf(t, Pop(conns))
         \o LoadedTools(Top(conns).id, Top(conns).tool, Contexts(t)[Top(conns).tool])

\* Only establishing tool connections failed in turn t, and some did.
OnlyConnectionsFailed(t) == faults[t] # {} /\ faults[t] \subseteq ConnFaults

\* C3: when some tool connections fail to establish and nothing else fails,
\* the agent runs with exactly the functions of the connections that are
\* established, all of them ready, and generate_response returns success=true,
\* with used_tools=true when there is a function to use.
C3_PartialConnectionFailure ==
    \A t \in Active :
        OnlyConnectionsFailed(t) =>
            /\ pc[t] = "agent" =>
                  /\ all_tools[t] = ToolsOf(t, open[t])
                  /\ \A i \in 1..Len(open[t]) : open[t][i].ready
            /\ pc[t] = "done" =>
                  /\ result[t].success
                  /\ "used_tools" \in result[t].keys
                  /\ result[t].used_tools <=> all_tools[t] # <<>>

\* C3 witness: one of two connections failed and the turn succeeded with the
\* functions of the other.
C3_Witness ==
    /\ pc["A"] = "done"
    /\ OnlyConnectionsFailed("A")
    /\ Len(Contexts("A")) = 2
    /\ nconn["A"] = 1
    /\ Len(all_tools["A"]) = 2
    /\ result["A"].success
    /\ result["A"].used_tools

\* The model invocations of turn t made through the agent.
AgentCalls(t) == {i \in 1..Len(calls[t]) : calls[t][i].via = "agent"}

\* The direct model invocations of turn t that raised a transport error.
TransportFailures(t) ==
    {i \in 1..Len(calls[t]) :
        calls[t][i].via = "direct" /\ IsTransportError(calls[t][i].exc)}

\* C4: a turn that ends without any function loaded has not run the agent; if
\* the model was configured it was invoked directly, and when that invocation
\* answered the result is success=true with used_tools=false.  With no tool
\* configured no connection is attempted.
C4_NoToolsDirectInvocation ==
    \A t \in Active :
        /\ (pc[t] = "done" /\ all_tools[t] = <<>>) =>
              /\ AgentCalls(t) = {}
              /\ "config" \notin faults[t] => calls[t] # <<>>
              /\ (calls[t] # <<>> /\ Top(calls[t]).exc = NoExc) =>
                    /\ result[t].success
                    /\ "used_tools" \in result[t].keys
                    /\ ~result[t].used_tools
        /\ Contexts(t) = <<>> =>
              /\ pc[t] \in {"idle", "direct", "sleep", "done"}
              /\ nconn[t] = 0
              /\ events[t] = <<>>
              /\ sem[t] = SemaphoreSize

\* C4 witness: of two configured tools one could not be launched and the
\* other served no function; the model answered the direct invocation.
C4_Witness ==
    /\ pc["A"] = "done"
    /\ Len(Contexts("A")) = 2
    /\ nconn["A"] = 1
    /\ "spawn" \in faults["A"]
    /\ all_tools["A"] = <<>>
    /\ result["A"] = Success("answer", FALSE)

\* generate_response returned a result dict with its mandatory keys.
ReturnedResult(t) == {"success", "response"} \subseteq result[t].keys

\* The failures generate_response does not recover from: of configure_llm, of
\* the direct model invocation with an error that is not retried, and of all
\* max_retries attempts of the direct model invocation.
Unrecovered(t) ==
    \/ "config" \in faults[t]
    \/ "model" \in faults[t]
    \/ Cardinality(TransportFailures(t)) = max_retries

HasGuidance(r) ==
    \E i \in 1..Len(r.error) : Contains(r.error[i], "connection") /\ Contains(r.error[i], "proxy")

\* C6: when all max_retries attempts of the direct model invocation failed
\* with a transport error, generate_response returns success=false with an
\* error string that has connection/proxy guidance.
C6_RetriesExhausted ==
    \A t \in Active :
        (pc[t] = "done" /\ Cardinality(TransportFailures(t)) = max_retries) =>
            /\ ReturnedResult(t)
            /\ ~result[t].success
            /\ "error" \in result[t].keys
            /\ HasGuidance(result[t])

\* C6 witness: a turn without tools whose three attempts failed has returned.
C6_Witness ==
    /\ pc["A"] = "done"
    /\ Contexts("A") = <<>>
    /\ Len(calls["A"]) = max_retries
    /\ Cardinality(TransportFailures("A")) = max_retries
    /\ attempt["A"] = max_retries - 1
    /\ result["A"] = ConnectionFailure(util["A"])

ClarifyingMessages == {ClarifyingMessage(e) : e \in ModelErrors}

\* The latest model invocation of turn t is an agent run that failed on the
\* arguments of a tool call.
ToolCallFailed(t) ==
    /\ calls[t] # <<>>
    /\ Top(calls[t]).via = "agent"
    /\ IsToolCallError(Top(calls[t]).exc)

\* C7: when the agent run fails on the arguments of a tool call, the error is
\* not raised out of create_nested_connections (its connections are left
\* returning the clarifying message), and generate_response returns
\* success=true with the clarifying message as the response.
C7_ToolCallErrorAnswered ==
    \A t \in Active :
        ToolCallFailed(t) =>
            /\ (pc[t] = "unwind" /\ "teardown" \notin faults[t]) =>
                  pending[t] = Returning(ClarifyingMessage(Top(calls[t]).exc))
            /\ pc[t] = "done" =>
                  /\ ReturnedResult(t)
                  /\ result[t].success
                  /\ result[t].response = ClarifyingMessage(Top(calls[t]).exc)
                  /\ result[t].response \in ClarifyingMessages
                  /\ result[t].used_tools
                  /\ "error" \notin result[t].keys

\* C7 witness: the turn ended with the clarifying message for
\* get_column_details.
C7_Witness ==
    /\ pc["A"] = "done"
    /\ ToolCallFailed("A")
    /\ result["A"].success
    /\ result["A"].response =
          ClarifyingMessage(Exc("Exception", "Failed to call a function get_column_details: table_name missing"))

\* The connections of turn t that are spawned and whose handshake has not
\* finished.
MidEstablishment(t) == {i \in 1..Len(open[t]) : ~open[t][i].ready}

\* C10: the number of connections that are mid-establishment never exceeds
\* the size of the connection semaphore.
C10_MidEstablishmentBounded ==
    \A t \in Active : Cardinality(MidEstablishment(t)) <= SemaphoreSize

\* C10 witness: with more tools configured than the semaphore admits, a
\* connection is mid-establishment while as many as the semaphore admits are
\* open.
C10_Witness ==
    /\ Len(Contexts("A")) > SemaphoreSize
    /\ pc["A"] = "handshake"
    /\ Len(open["A"]) > SemaphoreSize
    /\ Cardinality(MidEstablishment("A")) = 1

\* C8: once a turn has configured its model and finished its model calls,
\* HTTP_PROXY, HTTPS_PROXY, http_proxy and https_proxy have the values (or the
\* absence) they had when the turn started.
C8_ProxyEnvironmentReverted ==
    \A t \in Active :
        pc[t] = "done" => \A k \in ProxyVars : environ[k] = env0[t][k]

\* The proxy values turn t was constructed with.
ProxyValues(t) == {util[t].http_proxy, util[t].https_proxy} \ {None}

\* C9: no value read from os.environ on behalf of a turn without a proxy is
\* the proxy of a concurrent turn, and when all turns have finished the proxy
\* variables of os.environ have their initial values.
C9_ProxyNotObservable ==
    /\ \A a \in Active, b \in Active :
          (a # b /\ HasProxy(util[a]) /\ ~HasProxy(util[b])) =>
              observed[b] \cap ProxyValues(a) = {}
    /\ (\A t \in Active : pc[t] = "done") =>
          \A k \in ProxyVars : environ[k] = environ0[k]

\* The turns that hold a permit of their connection semaphore.
HoldingPermit == {t \in Active : sem[t] < SemaphoreSize}

\* The turns with a subprocess that is spawned and not yet initialized.
Establishing == {t \in Active : MidEstablishment(t) # {}}

\* C11: over all the turns in flight, the subprocess creations in progress
\* (inside the semaphore, or spawned and not yet initialized) never exceed
\* the size of the semaphore.
C11_SemaphoreSharedByTurns ==
    /\ Cardinality(HoldingPermit) <= SemaphoreSize
    /\ Cardinality(Establishing) <= SemaphoreSize

\* Each element of seq is greater than the one before it.
StrictlyIncreasing(seq) == \A i \in 1..(Len(seq) - 1) : seq[i] < seq[i + 1]

\* The direct model invocations of turn t.
DirectCalls(t) == {i \in 1..Len(calls[t]) : calls[t][i].via = "direct"}

\* C12: a connection is attempted at most self._max_retries times and the
\* direct model call at most max_retries times; in each retry loop the delay
\* slept before an attempt is greater than the delay slept before the previous
\* one, and nothing is slept after the last attempt.
C12_BoundedRetriesIncreasingDelay ==
    \A t \in Active :
        /\ tries[t] <= self_max_retries - 1
        /\ attempt[t] <= max_retries - 1
        /\ Cardinality(DirectCalls(t)) <= max_retries
        /\ Len(delays[t]) <= max_retries - 1
        /\ StrictlyIncreasing(delays[t])

\* An error of a model invocation that is neither a transport failure (which
\* the direct call retries) nor a tool-call error (which the agent run
\* answers with a clarifying message).
NonNetworkError(e) == e # NoExc /\ ~IsTransportError(e) /\ ~IsToolCallError(e)

\* C13: a model invocation that raised a non-network error is the last model
\* invocation of the turn, and the turn's result is success=false.
C13_NonNetworkErrorNotRetried ==
    \A t \in Active :
        \A i \in 1..Len(calls[t]) :
            NonNetworkError(calls[t][i].exc) =>
                /\ i = Len(calls[t])
                /\ pc[t] = "done" => ~result[t].success

\* The attempts to launch the server of tool j among the first n entries of
\* the log of turn t: the spawns that succeeded and those that failed.
SpawnAttempts(t, j, n) ==
    {k \in 1..n : /\ events[t][k][3] = j
                  /\ \/ events[t][k][1] = "open"
                     \/ events[t][k][1] = "fail" /\ events[t][k][2] = 0}

\* C14: a tool whose connection failed transiently (while spawning or during
\* the handshake) is given up only after self._max_retries attempts to
\* launch it.
C14_ContentionRetried ==
    \A t \in Active :
        \A i \in 1..Len(events[t]) :
            LET e == events[t][i]
            IN  (e[1] = "fail" /\ Contexts(t)[e[3]] # "bad" /\ idx[t] >= e[3]) =>
                    Cardinality(SpawnAttempts(t, e[3], i)) >= self_max_retries

\* The providers for which configure_llm requires an API key, and those for
\* which it requires a model name.
KeyProviders ==
    {"openai", "groq", "azure", "huggingface", "cerebras", "openrouter", "anthropic"}
ModelProviders == {"huggingface", "cerebras", "openrouter", "anthropic", "aws"}

\* The error string of result r names field.
NamesField(r, field) == \E i \in 1..Len(r.error) : Contains(r.error[i], field)

\* Turn t failed on the missing field without invoking the model and without
\* opening a connection.
FatalFor(t, field) ==
    /\ pc[t] = "done"
    /\ ReturnedResult(t)
    /\ ~result[t].success
    /\ NamesField(result[t], field)
    /\ util[t].model = None
    /\ calls[t] = <<>>
    /\ nconn[t] = 0
    /\ events[t] = <<>>
    /\ attempt[t] = 0

\* C15: a turn whose provider lacks a required API key, model name or AWS
\* credential ends, as soon as it runs, with success=false and an error that
\* names the missing field; the model is not invoked and no connection is
\* opened.
C15_MissingCredentialFatal ==
    \A t \in Active :
        pc[t] # "idle" =>
            LET u == util[t]
                missing == AwsRequired \ u.config_file_content
            IN  /\ (u.llm_provider \in KeyProviders /\ u.api_key = None) =>
                      FatalFor(t, "API key")
                /\ (u.llm_provider \in ModelProviders /\ u.model_name = None
                    /\ (u.llm_provider \in KeyProviders => u.api_key # None)) =>
                      FatalFor(t, "Model name")
                /\ (u.llm_provider = "aws" /\ u.model_name # None
                    /\ u.config_file_content = {}) =>
                      FatalFor(t, "Configuration file")
                /\ (u.llm_provider = "aws" /\ u.model_name # None
                    /\ u.config_file_content # {}) =>
                      \A f \in missing : FatalFor(t, f)

\* C15 witness: an aws turn whose configuration file lacks the region has
\* failed naming it.
C15_Witness ==
    /\ util["A"].llm_provider = "aws"
    /\ util["A"].config_file_content = {"access_key", "secret_key"}
    /\ Contexts("A") # <<>>
    /\ FatalFor("A", "region")

\* The positions of the toolset of turn t that hold function name of the tool
\* at position tool.
Occurrences(t, tool, name) ==
    {k \in 1..Len(all_tools[t]) :
        all_tools[t][k].tool = tool /\ all_tools[t][k].name = name}

\* C16: whenever the agent is run, the toolset handed to it contains every
\* function of every connected tool exactly once.
C16_CatalogFidelity ==
    \A t \in Active :
        pc[t] = "agent" =>
            \A i \in 1..Len(open[t]) :
                LET tool == open[t][i].tool
                    catalog == Catalog(tool, Contexts(t)[tool])
                IN  \A j \in 1..Len(catalog) :
                        Cardinality(Occurrences(t, tool, catalog[j].name)) = 1

\* C17: once the task of a turn is cancelled, no further connection is
\* opened and no agent run is started; connections are closed in reverse
\* order of opening and none is left open when the turn has ended.
C17_AbortTearsDown ==
    \A t \in Active :
        aborted[t].is =>
            /\ nconn[t] = aborted[t].nconn
            /\ AgentCalls(t) \subseteq 1..aborted[t].ncalls
            /\ Replay(events[t], Len(events[t])) # <<0>>
            /\ pc[t] \in {"cancelled", "done"} => open[t] = <<>>

\* The fields of the TurnResult contract.
TurnResultFields == {"success", "response", "error", "used_tools"}

\* C19: every value generate_response returns holds all four fields of the
\* TurnResult contract; success=true comes with a response and no error,
\* success=false with a non-empty error string.
C19_TurnResultContract ==
    \A t \in Active :
        pc[t] = "done" =>
            /\ result[t].keys = TurnResultFields
            /\ result[t].used_tools \in BOOLEAN
            /\ result[t].success => result[t].error = <<>> /\ result[t].response # ""
            /\ ~result[t].success => result[t].error # <<>>

\* The keyword arguments of ChatOllama(model=self.model_name,
\* temperature=self.temperature): the client is given no proxy setting of its
\* own.
ChatOllamaArgs == {"model", "temperature"}

\* The model of turn t is being called: agent.ainvoke or model.ainvoke is
\* awaited.
Calling(t) == pc[t] \in {"agent", "direct"}

\* C20: while the model of an ollama turn is called, no proxy variable is set
\* in the process environment, or the client was built with arguments that
\* bypass the environment.
C20_OllamaProxySuppressed ==
    \A t \in Active :
        (util[t].llm_provider = "ollama" /\ util[t].model # None /\ Calling(t)) =>
            \/ \A k \in ProxyVars : environ[k] = None
            \/ "client_kwargs" \in ChatOllamaArgs

\* Turn t is spawning a tool subprocess or awaiting its handshake.
Spawning(t) == pc[t] \in {"spawn", "handshake"}

\* C21: a tool subprocess is spawned and handshaken only while the turn holds
\* a permit of the connection semaphore, and a permit stays taken for every
\* connection that is open.
C21_GateCoversSpawn ==
    \A t \in Active :
        /\ Spawning(t) => t \in HoldingPermit
        /\ sem[t] <= SemaphoreSize - Len(open[t])

\* Turn t has built the server parameters of its tool.
ParamsBuilt(t) == pc[t] \notin {"idle", "off"} /\ util[t].model # None /\ Contexts(t) # <<>>

\* C22: the environment of the tool subprocess is the env of the tool config
\* overlaid with the proxies of the turn: HTTP_PROXY and http_proxy are
\* http_proxy when it is set, HTTPS_PROXY and https_proxy are https_proxy when
\* it is set; with neither set it is the env of the tool config; the env dict
\* of the tool config is as it was given.
C22_ServerParamsEnv ==
    \A t \in Active :
        ParamsBuilt(t) =>
            LET u == util[t]
                env == u.server_params
            IN  /\ u.http_proxy # None =>
                      env["HTTP_PROXY"] = u.http_proxy /\ env["http_proxy"] = u.http_proxy
                /\ u.https_proxy # None =>
                      env["HTTPS_PROXY"] = u.https_proxy /\ env["https_proxy"] = u.https_proxy
                /\ (u.http_proxy = None /\ u.https_proxy = None) =>
                      env = u.tool_env_given
                /\ u.tool_env = u.tool_env_given

\* C22 witness: a turn with an HTTP proxy has built the parameters of a tool
\* whose env names another HTTP proxy.
C22_Witness ==
    /\ ParamsBuilt("A")
    /\ util["A"].http_proxy # None
    /\ util["A"].https_proxy = None
    /\ util["A"].tool_env_given["HTTP_PROXY"] = "http://tool-proxy:3128"
    /\ util["A"].server_params["HTTP_PROXY"] = util["A"].http_proxy
    /\ util["A"].server_params["https_proxy"] = "http://tool-proxy:3128"
    /\ util["A"].server_params["TOOL_TOKEN"] = "token"

\* seq starts with the entries of prefix, in their order.
StartsWith(seq, prefix) ==
    Len(prefix) <= Len(seq) /\ SubSeq(seq, 1, Len(prefix)) = prefix

\* C23: message_history only grows at its end during generate_response; with
\* include_history a successful turn has appended the user message and then
\* the assistant response, a failed turn the user message alone, and without
\* include_history message_history is as it was.
C23_HistoryAppendOnly ==
    \A t \in Active :
        LET u == util[t]
            given == u.history_given
        IN  /\ StartsWith(u.message_history, given)
            /\ (pc[t] # "idle" /\ u.include_history) =>
                   StartsWith(u.message_history, Append(given, UserMessage))
            /\ ~u.include_history => u.message_history = given
            /\ (pc[t] = "done" /\ u.include_history) =>
                   IF result[t].success
                   THEN u.message_history =
                            given \o <<UserMessage, Msg("assistant", result[t].response, 0)>>
                   ELSE u.message_history = Append(given, UserMessage)

\* C23 witness: a successful turn with include_history on a utility that held
\* more than its system prompt.
C23_Witness ==
    /\ pc["A"] = "done"
    /\ result["A"].success
    /\ util["A"].include_history
    /\ Len(util["A"].history_given) > 2
    /\ Len(util["A"].message_history) = Len(util["A"].history_given) + 2

\* C24: within one generate_response call the agent is run at most once.
C24_AgentRunAtMostOnce ==
    \A t \in Active : Cardinality(AgentCalls(t)) <= 1

\* C25: the connections opened in a turn never outnumber its tool configs.
C25_ConnectedAtMostOnce ==
    \A t \in Active : nconn[t] <= Len(Contexts(t))

\* The agent runs of turn t that completed with a response.
CompletedRuns(t) == {i \in AgentCalls(t) : calls[t][i].exc = NoExc}

\* C26: once an agent run has completed with a response no further model
\* invocation is made, and generate_response returns that response with
\* used_tools=true.
C26_ResponseSurvivesTeardown ==
    \A t \in Active :
        \A i \in CompletedRuns(t) :
            /\ i = Len(calls[t])
            /\ pc[t] = "done" =>
                  /\ result[t].success
                  /\ "used_tools" \in result[t].keys
                  /\ result[t].used_tools

\* The utility of turn t was constructed with the legacy mcp_server_config
\* only, and its server serves functions.
LegacyOnly(t) ==
    /\ util[t].agent_mcp_configs = <<>>
    /\ util[t].mcp_server_config # None
    /\ Catalog(1, util[t].mcp_server_config) # <<>>

\* C27: a turn constructed with only the legacy mcp_server_config, whose
\* server serves a function and whose model answers, ends with
\* used_tools=true.
C27_LegacyConfigUsesTools ==
    \A t \in Active :
        (LegacyOnly(t) /\ pc[t] = "done" /\ result[t].success) =>
            /\ "used_tools" \in result[t].keys
            /\ result[t].used_tools

\* The stored messages among the messages submitted to the model in turn t.
StoredContext(t) == SelectSeq(util[t].langchain_messages, LAMBDA m : m.id > 0)

\* The last (at most) HistoryLimit messages of a session of n messages, oldest
\* first.
MostRecent(n) ==
    LET first == IF n > HistoryLimit THEN n - HistoryLimit + 1 ELSE 1
    IN  [i \in 1..(n - first + 1) |-> StoredMessage(first + i - 1)]

\* C28: the history chat_with_ai gives the model as context is the most recent
\* 50 messages of the session, oldest first.
C28_MostRecentHistory ==
    \A t \in Active :
        (util[t].by_router /\ Calling(t)) =>
            StoredContext(t) = MostRecent(util[t].session)

\* The positions of the current user message in the messages submitted to the
\* model in turn t.
CurrentMessageAt(t) ==
    {i \in 1..Len(util[t].langchain_messages) :
        util[t].langchain_messages[i] = UserMessage}

\* C29: the conversation chat_with_ai submits to the model holds the current
\* user message exactly once, as its last entry.
C29_UserMessageOnce ==
    \A t \in Active :
        (util[t].by_router /\ Calling(t)) =>
            CurrentMessageAt(t) = {Len(util[t].langchain_messages)}

\* The API keys given to the turns.
ApiKeys == {util[t].api_key : t \in Active} \ {None}

\* C30: os.environ never holds an API key given to a turn, and
\* AZURE_INFERENCE_CREDENTIAL stays as it was when the process started.
C30_NoCredentialInEnviron ==
    /\ \A k \in EnvVars : environ[k] \notin ApiKeys
    /\ environ["AZURE_INFERENCE_CREDENTIAL"] = environ0["AZURE_INFERENCE_CREDENTIAL"]

====
